---------------------------- MODULE Spec2Model ----------------------------
(***************************************************************************)
(* Hyperslop MCP server: the tool surface of main.py and the gateway       *)
(* client of gateway_client.py.                                            *)
(*                                                                         *)
(* Python strings are sequences of one-character strings, so that the      *)
(* string operations of the code (startswith, in, rstrip, partition,       *)
(* f-string concatenation, int(), str()) are computed and not assumed.     *)
(* A Python dict is a record.  None, for an optional value, is the empty   *)
(* sequence and a present value v is <<v>>.                                *)
(***************************************************************************)
EXTENDS Integers, Sequences, FiniteSets, TLC

VARIABLES gateway_client, inv

vars == <<gateway_client, inv>>

(***************************************************************************)
(* Bounds                                                                  *)
(***************************************************************************)
\* Tool invocations that may be in flight at the same time.
MaxInFlight == 2

(***************************************************************************)
(* Python string operations                                                *)
(***************************************************************************)
startswith(s, p) == Len(p) <= Len(s) /\ SubSeq(s, 1, Len(p)) = p

\* sub in s
contains(s, sub) ==
    \E k \in 1..(Len(s) - Len(sub) + 1) : SubSeq(s, k, k + Len(sub) - 1) = sub

\* s.find(c) + 1 for a one-character c: 0 when c is not in s
find(s, c) ==
    IF \E k \in 1..Len(s) : s[k] = c
    THEN CHOOSE k \in 1..Len(s) : s[k] = c /\ \A j \in 1..(k - 1) : s[j] /= c
    ELSE 0

\* s.rfind(c) + 1
rfind(s, c) ==
    IF \E k \in 1..Len(s) : s[k] = c
    THEN CHOOSE k \in 1..Len(s) : s[k] = c /\ \A j \in (k + 1)..Len(s) : s[j] /= c
    ELSE 0

\* the first position holding one of the characters cs, Len(s) + 1 when none does
find_any(s, cs) ==
    IF \E k \in 1..Len(s) : s[k] \in cs
    THEN CHOOSE k \in 1..Len(s) : s[k] \in cs /\ \A j \in 1..(k - 1) : s[j] \notin cs
    ELSE Len(s) + 1

RECURSIVE rstrip(_, _)
rstrip(s, c) ==
    IF s /= << >> /\ s[Len(s)] = c THEN rstrip(SubSeq(s, 1, Len(s) - 1), c) ELSE s

UpperCase == <<"A","B","C","D","E","F","G","H","I","J","K","L","M","N","O","P","Q","R","S","T","U","V","W","X","Y","Z">>
LowerCase == <<"a","b","c","d","e","f","g","h","i","j","k","l","m","n","o","p","q","r","s","t","u","v","w","x","y","z">>
Digits == <<"0","1","2","3","4","5","6","7","8","9">>

lower_char(c) ==
    IF \E k \in 1..26 : UpperCase[k] = c
    THEN LowerCase[CHOOSE k \in 1..26 : UpperCase[k] = c]
    ELSE c

lower(s) == [k \in 1..Len(s) |-> lower_char(s[k])]

isdigit(s) == s /= << >> /\ \A k \in 1..Len(s) : \E d \in 1..10 : Digits[d] = s[k]

digit_value(c) == (CHOOSE d \in 1..10 : Digits[d] = c) - 1

\* int(s) for a string of decimal digits
RECURSIVE int(_)
int(s) ==
    IF s = << >> THEN 0
    ELSE 10 * int(SubSeq(s, 1, Len(s) - 1)) + digit_value(s[Len(s)])

\* str(n) for n >= 0
RECURSIVE str(_)
str(n) ==
    IF n < 10 THEN <<Digits[n + 1]>>
    ELSE str(n \div 10) \o <<Digits[(n % 10) + 1]>>

(***************************************************************************)
(* urllib.parse, as far as _fix_localhost_url uses it                      *)
(***************************************************************************)
SchemeChars ==
    {UpperCase[k] : k \in 1..26} \cup {LowerCase[k] : k \in 1..26}
        \cup {Digits[k] : k \in 1..10} \cup {"+", "-", "."}

Letters == {UpperCase[k] : k \in 1..26} \cup {LowerCase[k] : k \in 1..26}

\* urlparse(url), step by step as urlsplit does it: the scheme up to the first
\* ":", the netloc after "//" up to the first of "/", "?", "#", then the
\* fragment after "#" and the query after "?".  (The ";params" of the last
\* path segment stay in the path: urlunparse puts them back where they were.)
\* Each step is an operator of its own, so that what a step computes is named
\* once.
has_scheme(url, colon) ==
    /\ colon > 1
    /\ url[1] \in Letters
    /\ \A k \in 1..(colon - 1) : url[k] \in SchemeChars

split_scheme(url, colon) ==
    IF has_scheme(url, colon)
    THEN [scheme |-> lower(SubSeq(url, 1, colon - 1)),
          rest |-> SubSeq(url, colon + 1, Len(url))]
    ELSE [scheme |-> << >>, rest |-> url]

cut_at(s, k) == [head |-> SubSeq(s, 1, k - 1), tail |-> SubSeq(s, k, Len(s))]

split_netloc(after) ==
    IF startswith(after, <<"/","/">>)
    THEN cut_at(SubSeq(after, 3, Len(after)),
                find_any(SubSeq(after, 3, Len(after)), {"/", "?", "#"}))
    ELSE [head |-> << >>, tail |-> after]

\* s.partition(c) without the separator: what precedes the first c, what follows it
partition(s, k) ==
    IF k > 0 THEN [head |-> SubSeq(s, 1, k - 1), tail |-> SubSeq(s, k + 1, Len(s))]
    ELSE [head |-> s, tail |-> << >>]

parsed_query(scheme, netloc, fragment, pq) ==
    [scheme |-> scheme, netloc |-> netloc, path |-> pq.head,
     query |-> pq.tail, fragment |-> fragment]

parsed_fragment(scheme, netloc, rf) ==
    parsed_query(scheme, netloc, rf.tail, partition(rf.head, find(rf.head, "?")))

parsed_netloc(scheme, nl) ==
    parsed_fragment(scheme, nl.head, partition(nl.tail, find(nl.tail, "#")))

parsed_scheme(sc) == parsed_netloc(sc.scheme, split_netloc(sc.rest))

urlparse(url) == parsed_scheme(split_scheme(url, find(url, ":")))

\* urlunparse(parsed); http and https are schemes that use a netloc
urlunparse(parsed) ==
    (IF parsed.scheme /= << >> THEN parsed.scheme \o <<":">> ELSE << >>)
    \o (IF parsed.netloc /= << >> \/
           (parsed.scheme /= << >> /\ ~startswith(parsed.path, <<"/","/">>))
        THEN <<"/","/">> \o parsed.netloc \o
             (IF parsed.path /= << >> /\ parsed.path[1] /= "/" THEN <<"/">> ELSE << >>)
        ELSE << >>)
    \o parsed.path
    \o (IF parsed.query /= << >> THEN <<"?">> \o parsed.query ELSE << >>)
    \o (IF parsed.fragment /= << >> THEN <<"#">> \o parsed.fragment ELSE << >>)

\* the host and port part of a netloc: what follows the last "@"
hostinfo(netloc) == SubSeq(netloc, rfind(netloc, "@") + 1, Len(netloc))

\* parsed.hostname: the host part before the first ":", in lower case
hostname(parsed) ==
    lower(partition(hostinfo(parsed.netloc), find(hostinfo(parsed.netloc), ":")).head)

\* the text after the first ":" of the host part (empty: no port)
port_text(parsed) ==
    partition(hostinfo(parsed.netloc), find(hostinfo(parsed.netloc), ":")).tail

\* int(port), or the ValueError of a port that is no number or out of range
port_value(text) ==
    IF text = << >> THEN [raised |-> FALSE, value |-> << >>]
    ELSE IF ~isdigit(text)
    THEN [raised |-> TRUE,
          text |-> <<"P","o","r","t"," ","c","o","u","l","d"," ","n","o","t"," ","b","e"," ","c","a","s","t"," ","t","o"," ","i","n","t","e","g","e","r"," ","v","a","l","u","e"," ","a","s"," ","'">> \o text \o <<"'">>]
    ELSE IF int(text) > 65535
    THEN [raised |-> TRUE, text |-> <<"P","o","r","t"," ","o","u","t"," ","o","f"," ","r","a","n","g","e"," ","0","-","6","5","5","3","5">>]
    ELSE [raised |-> FALSE, value |-> <<int(text)>>]

\* parsed.port: None, the port as a number, or a ValueError
port(parsed) == port_value(port_text(parsed))

(***************************************************************************)
(* gateway_client.py: GatewayConfig, GatewayClient                         *)
(***************************************************************************)
GatewayConfig(url, key, node) == [url |-> url, key |-> key, node |-> node]

\* GatewayClient.__init__
GatewayClient(config) ==
    [config |-> config,
     headers |-> ("X-API-Key" :> config.key),
     rpc_url |-> rstrip(config.url, "/") \o <<"/","r","p","c">>,
     read_url |-> rstrip(config.url, "/") \o <<"/","r","e","a","d">>]

get_node(self) == self.config.node

\* The envelopes.  A returned str (get_our_node_name) is [str |-> s].
Error(message) == [Error |-> [message |-> message]]
ReadFile(content, mime_type) ==
    [ReadFile |-> [content |-> content, mime_type |-> mime_type]]

\* What a try block ends with: a returned value, or an exception that leaves
\* the method.
Returned(value) == [raised |-> FALSE, result |-> <<value>>]
Propagated(e) == [raised |-> TRUE, result |-> << >>]

\* Exceptions: the class decides which except clause takes it.
HTTPErrorClasses == {"HTTPStatusError", "ConnectError", "ConnectTimeout", "ReadTimeout"}
ExceptionClasses == HTTPErrorClasses \cup {"ValueError", "JSONDecodeError"}

Exc(cls, text) == [cls |-> cls, text |-> text, status |-> 0]

\* f":{parsed.port}" if parsed.port else ""
port_part(p) ==
    IF p.value /= << >> /\ p.value[1] /= 0 THEN <<":">> \o str(p.value[1]) ELSE << >>

\* the rewrite of a parsed url whose port is p, or the ValueError of parsed.port
replace_netloc(parsed, p) ==
    IF p.raised THEN [raised |-> TRUE, exc |-> Exc("ValueError", p.text)]
    ELSE [raised |-> FALSE,
          value |-> urlunparse([parsed EXCEPT !.netloc = <<"1","2","7",".","0",".","0",".","1">> \o port_part(p)])]

fix_parsed(parsed) ==
    IF contains(parsed.netloc, <<".","l","o","c","a","l","h","o","s","t">>) \/ parsed.netloc = <<"l","o","c","a","l","h","o","s","t">>
    THEN replace_netloc(parsed, port(parsed))
    ELSE [raised |-> FALSE, value |-> urlunparse(parsed)]

\* GatewayClient._fix_localhost_url: the rewritten url, or the ValueError of
\* parsed.port
_fix_localhost_url(url) == fix_parsed(urlparse(url))

\* response.raise_for_status(): the HTTPStatusError of a status outside 2xx
is_success(status) == status >= 200 /\ status <= 299

error_type(status) ==
    CASE status \div 100 = 1 -> <<"I","n","f","o","r","m","a","t","i","o","n","a","l"," ","r","e","s","p","o","n","s","e">>
      [] status \div 100 = 3 -> <<"R","e","d","i","r","e","c","t"," ","r","e","s","p","o","n","s","e">>
      [] status \div 100 = 4 -> <<"C","l","i","e","n","t"," ","e","r","r","o","r">>
      [] OTHER -> <<"S","e","r","v","e","r"," ","e","r","r","o","r">>

HTTPStatusError(response, url) ==
    [cls |-> "HTTPStatusError",
     text |-> error_type(response.status) \o <<" ","'">> \o str(response.status)
                \o <<" ">> \o response.reason \o <<"'"," ","f","o","r"," ","u","r","l"," ","'">> \o url \o <<"'">>,
     status |-> response.status]

\* rpc_except without its except Exception clause: what is no httpx.HTTPError
\* leaves the method
rpc_except_http_only(e) ==
    IF e.cls \in HTTPErrorClasses THEN Returned(Error(e.text))
    ELSE Propagated(e)

\* except httpx.HTTPError / except Exception of _make_rpc_request
rpc_except(e) ==
    IF e.cls \in HTTPErrorClasses THEN Returned(Error(e.text))
    ELSE IF e.cls \in ExceptionClasses
    THEN Returned(Error(<<"R","e","q","u","e","s","t"," ","f","a","i","l","e","d",":"," ">> \o e.text))
    ELSE Propagated(e)

\* read_except without the 404 case
read_except_no_404(e, path) ==
    IF e.cls = "HTTPStatusError" THEN Returned(Error(e.text))
    ELSE IF e.cls \in ExceptionClasses
    THEN Returned(Error(<<"R","e","q","u","e","s","t"," ","f","a","i","l","e","d",":"," ">> \o e.text))
    ELSE Propagated(e)

\* except httpx.HTTPStatusError / except Exception of _make_read_request
read_except(e, path) ==
    IF e.cls = "HTTPStatusError"
    THEN IF e.status = 404
         THEN Returned(Error(<<"F","i","l","e"," ","n","o","t"," ","f","o","u","n","d",":"," ">> \o path))
         ELSE Returned(Error(e.text))
    ELSE IF e.cls \in ExceptionClasses
    THEN Returned(Error(<<"R","e","q","u","e","s","t"," ","f","a","i","l","e","d",":"," ">> \o e.text))
    ELSE Propagated(e)

\* mime_type.startswith('text'): the "/" forgotten
is_text_prefix_only(mime_type) == startswith(mime_type, <<"t","e","x","t">>)

\* mime_type.startswith('text/')
is_text(mime_type) == startswith(mime_type, <<"t","e","x","t","/">>)

(***************************************************************************)
(* Tool invocations.  Each slot of inv is one invocation: idle, awaiting   *)
(* the response of the remote call it issued, or done with what it         *)
(* returned (or raised) to the caller.                                     *)
(***************************************************************************)
Slots == 1..MaxInFlight

Idle ==
    [pc |-> "idle", tool |-> "", node |-> << >>, path |-> << >>,
     content |-> << >>, forwarded |-> FALSE, channel |-> "",
     sent |-> << >>, resp |-> << >>, result |-> << >>, raised |-> FALSE]

Call(tool, node, path, content) ==
    [Idle EXCEPT !.tool = tool, !.node = node, !.path = path, !.content = content]

\* the invocation returns value without calling the gateway client
returns(i, c, value) ==
    /\ inv' = [inv EXCEPT ![i] = [c EXCEPT !.pc = "done", !.result = <<value>>]]
    /\ UNCHANGED gateway_client

\* the end of a gateway client method: what its try block ended with
finish(c, out) ==
    [c EXCEPT !.pc = "done", !.result = out.result, !.raised = out.raised]

\* client.post(url, json=request) with the headers of the call, or the except
\* clause of what _fix_localhost_url raised
rpc_post(i, c, headers, request, fixed) ==
    inv' = [inv EXCEPT ![i] =
              IF fixed.raised THEN finish(c, rpc_except(fixed.exc))
              ELSE [c EXCEPT !.pc = "awaiting",
                             !.sent = <<[method |-> "POST", url |-> fixed.value,
                                         headers |-> headers,
                                         json |-> <<request>>]>>]]

\* GatewayClient._make_rpc_request up to the await of client.post
_make_rpc_request(i, c, self, request) ==
    /\ rpc_post(i, [c EXCEPT !.forwarded = TRUE, !.channel = "rpc"],
                ("Content-Type" :> <<"a","p","p","l","i","c","a","t","i","o","n","/","j","s","o","n">>) @@ self.headers,
                request, _fix_localhost_url(self.rpc_url))
    /\ UNCHANGED gateway_client

\* client.get(url), or the except clause of what _fix_localhost_url raised
read_get(i, c, headers, path, fixed) ==
    inv' = [inv EXCEPT ![i] =
              IF fixed.raised THEN finish(c, read_except(fixed.exc, path))
              ELSE [c EXCEPT !.pc = "awaiting",
                             !.sent = <<[method |-> "GET", url |-> fixed.value,
                                         headers |-> headers, json |-> << >>]>>]]

\* _make_read_request building its url into self.read_url
_make_read_request_keeps_url(i, c, self, node, path) ==
    /\ read_get(i, [c EXCEPT !.forwarded = TRUE, !.channel = "read"],
                self.headers, path,
                _fix_localhost_url(self.read_url \o <<"/">> \o node \o <<"/">> \o path))
    /\ gateway_client' =
         <<[self EXCEPT !.read_url = self.read_url \o <<"/">> \o node \o <<"/">> \o path]>>

\* GatewayClient._make_read_request up to the await of client.get
_make_read_request(i, c, self, node, path) ==
    /\ read_get(i, [c EXCEPT !.forwarded = TRUE, !.channel = "read"],
                self.headers, path,
                _fix_localhost_url(self.read_url \o <<"/">> \o node \o <<"/">> \o path))
    /\ UNCHANGED gateway_client

\* The request bodies of the gateway client's operations
Request(node, request_type, path) ==
    [node |-> node, request |-> [request_type |-> request_type, path |-> path]]

RequestWithContent(node, request_type, path, content) ==
    [node |-> node,
     request |-> [request_type |-> request_type, path |-> path, content |-> content]]

client_read_directory(i, c, self, node, path) ==
    _make_rpc_request(i, c, self, Request(node, "ReadPublicDir", path))

client_create_directory(i, c, self, node, path) ==
    _make_rpc_request(i, c, self, Request(node, "CreateDir", path))

client_delete_directory(i, c, self, node, path) ==
    _make_rpc_request(i, c, self, Request(node, "DeleteDir", path))

client_read_file(i, c, self, node, path) ==
    _make_read_request(i, c, self, node, path)

client_create_file(i, c, self, node, path, content) ==
    _make_rpc_request(i, c, self, RequestWithContent(node, "CreateFile", path, content))

client_write_file(i, c, self, node, path, content) ==
    _make_rpc_request(i, c, self, RequestWithContent(node, "WriteFile", path, content))

client_delete_file(i, c, self, node, path) ==
    _make_rpc_request(i, c, self, Request(node, "DeleteFile", path))

client_read_file_tree(i, c, self, node) ==
    _make_rpc_request(i, c, self, Request(node, "ReadFileTree", << >>))

\* GatewayClient.read_api_key: no tool calls it
read_api_key(i) ==
    /\ inv[i].pc = "idle"
    /\ gateway_client /= << >>
    /\ _make_rpc_request(i, Call("read_api_key", << >>, << >>, << >>),
                         gateway_client[1], [System |-> [ReadApiKey |-> << >>]])

(***************************************************************************)
(* The remote call's outcome: a response, or an exception of the HTTP      *)
(* client.  A response carries its status, its reason phrase, its          *)
(* Content-Type header (optional), its body as JSON (none: the body is no  *)
(* JSON document) and its body as text.                                    *)
(***************************************************************************)
Resp(status, reason, content_type, json, text) ==
    [kind |-> "response",
     response |-> [status |-> status, reason |-> reason,
                   content_type |-> content_type, json |-> json, text |-> text]]

Raise(cls, text) == [kind |-> "exception", exc |-> Exc(cls, text)]

\* GatewayClient._make_rpc_request from the response of client.post on
rpc_result(c, outcome) ==
    IF outcome.kind = "exception" THEN rpc_except(outcome.exc)
    ELSE IF ~is_success(outcome.response.status)
    THEN rpc_except(HTTPStatusError(outcome.response, c.sent[1].url))
    ELSE IF outcome.response.json = << >>
    THEN rpc_except(Exc("JSONDecodeError",
                        <<"E","x","p","e","c","t","i","n","g"," ","v","a","l","u","e",":"," ","l","i","n","e"," ","1"," ","c","o","l","u","m","n"," ","1"," ","(","c","h","a","r"," ","0",")">>))
    ELSE Returned(outcome.response.json[1])

\* response.headers.get('Content-Type', 'text/plain')
content_type(response) ==
    IF response.content_type = << >> THEN <<"t","e","x","t","/","p","l","a","i","n">> ELSE response.content_type[1]

\* the text-only rule of _make_read_request
read_body(response, mime_type) ==
    IF ~is_text(mime_type)
    THEN Returned(Error(<<"F","i","l","e"," ","i","s"," ","n","o","t"," ","a"," ","t","e","x","t"," ","f","i","l","e"," ","(","m","i","m","e"," ","t","y","p","e",":"," ">> \o mime_type \o <<")">>))
    ELSE Returned(ReadFile(response.text, mime_type))

\* GatewayClient._make_read_request from the response of client.get on
read_result(c, outcome) ==
    IF outcome.kind = "exception" THEN read_except(outcome.exc, c.path)
    ELSE IF ~is_success(outcome.response.status)
    THEN read_except(HTTPStatusError(outcome.response, c.sent[1].url), c.path)
    ELSE read_body(outcome.response, content_type(outcome.response))

after_response(c, outcome) == [c EXCEPT !.resp = <<outcome>>]

rpc_response(i, outcome) ==
    /\ inv[i].pc = "awaiting"
    /\ inv[i].channel = "rpc"
    /\ inv' = [inv EXCEPT ![i] = finish(after_response(inv[i], outcome),
                                        rpc_result(inv[i], outcome))]
    /\ UNCHANGED gateway_client

read_response(i, outcome) ==
    /\ inv[i].pc = "awaiting"
    /\ inv[i].channel = "read"
    /\ inv' = [inv EXCEPT ![i] = finish(after_response(inv[i], outcome),
                                        read_result(inv[i], outcome))]
    /\ UNCHANGED gateway_client

(***************************************************************************)
(* main.py: the configuration load and the tools                           *)
(***************************************************************************)
\* api.json: absent, not JSON, or a JSON object with some of the fields
ConfigFile(exists, is_json, fields) ==
    [exists |-> exists, is_json |-> is_json, fields |-> fields]

\* The module-level load: gateway_client stays None on FileNotFoundError,
\* JSONDecodeError and the KeyError of a missing field
LoadConfig(file) ==
    IF ~file.exists THEN << >>
    ELSE IF ~file.is_json THEN << >>
    ELSE IF ~({"url", "key", "node"} \subseteq DOMAIN file.fields) THEN << >>
    ELSE <<GatewayClient(GatewayConfig(file.fields["url"], file.fields["key"],
                                       file.fields["node"]))>>

NotConfigured == Error(<<"G","a","t","e","w","a","y"," ","c","l","i","e","n","t"," ","n","o","t"," ","c","o","n","f","i","g","u","r","e","d">>)

get_our_node_name(i) ==
    /\ inv[i].pc = "idle"
    /\ LET c == Call("get_our_node_name", << >>, << >>, << >>)
       IN IF gateway_client = << >>
          THEN returns(i, c, [str |-> <<"N","o"," ","n","o","d","e"," ","c","o","n","f","i","g","u","r","e","d">>])
          ELSE returns(i, c, [str |-> get_node(gateway_client[1])])

read_directory(i, node, path) ==
    /\ inv[i].pc = "idle"
    /\ LET c == Call("read_directory", node, path, << >>)
       IN IF gateway_client = << >> THEN returns(i, c, NotConfigured)
          ELSE client_read_directory(i, c, gateway_client[1], node, path)

create_directory(i, node, path) ==
    /\ inv[i].pc = "idle"
    /\ LET c == Call("create_directory", node, path, << >>)
       IN IF gateway_client = << >> THEN returns(i, c, NotConfigured)
          ELSE IF node /= get_node(gateway_client[1])
          THEN returns(i, c,
                  Error(<<"Y","o","u"," ","c","a","n"," ","o","n","l","y"," ","c","r","e","a","t","e"," ","d","i","r","e","c","t","o","r","i","e","s"," ","o","n"," ","y","o","u","r"," ","o","w","n"," ","n","o","d","e">>))
          ELSE client_create_directory(i, c, gateway_client[1], node, path)

delete_directory(i, node, path) ==
    /\ inv[i].pc = "idle"
    /\ LET c == Call("delete_directory", node, path, << >>)
       IN IF gateway_client = << >> THEN returns(i, c, NotConfigured)
          ELSE IF node /= get_node(gateway_client[1])
          THEN returns(i, c,
                  Error(<<"Y","o","u"," ","c","a","n"," ","o","n","l","y"," ","d","e","l","e","t","e"," ","d","i","r","e","c","t","o","r","i","e","s"," ","o","n"," ","y","o","u","r"," ","o","w","n"," ","n","o","d","e">>))
          ELSE client_delete_directory(i, c, gateway_client[1], node, path)

\* read_file with the ownership check of the mutation tools
read_file_own_node_only(i, node, path) ==
    /\ inv[i].pc = "idle"
    /\ LET c == Call("read_file", node, path, << >>)
       IN IF gateway_client = << >> THEN returns(i, c, NotConfigured)
          ELSE IF node /= get_node(gateway_client[1])
          THEN returns(i, c, Error(<<"Y","o","u"," ","c","a","n"," ","o","n","l","y"," ","r","e","a","d"," ","f","i","l","e","s"," ","o","n"," ","y","o","u","r"," ","o","w","n"," ","n","o","d","e">>))
          ELSE client_read_file(i, c, gateway_client[1], node, path)

read_file(i, node, path) ==
    /\ inv[i].pc = "idle"
    /\ LET c == Call("read_file", node, path, << >>)
       IN IF gateway_client = << >> THEN returns(i, c, NotConfigured)
          ELSE client_read_file(i, c, gateway_client[1], node, path)

create_file(i, node, path, content) ==
    /\ inv[i].pc = "idle"
    /\ LET c == Call("create_file", node, path, content)
       IN IF gateway_client = << >> THEN returns(i, c, NotConfigured)
          ELSE IF node /= get_node(gateway_client[1])
          THEN returns(i, c, Error(<<"Y","o","u"," ","c","a","n"," ","o","n","l","y"," ","c","r","e","a","t","e"," ","f","i","l","e","s"," ","o","n"," ","y","o","u","r"," ","o","w","n"," ","n","o","d","e">>))
          ELSE client_create_file(i, c, gateway_client[1], node, path, content)

\* write_file without its ownership check
write_file_any_node(i, node, path, content) ==
    /\ inv[i].pc = "idle"
    /\ LET c == Call("write_file", node, path, content)
       IN IF gateway_client = << >> THEN returns(i, c, NotConfigured)
          ELSE client_write_file(i, c, gateway_client[1], node, path, content)

write_file(i, node, path, content) ==
    /\ inv[i].pc = "idle"
    /\ LET c == Call("write_file", node, path, content)
       IN IF gateway_client = << >> THEN returns(i, c, NotConfigured)
          ELSE IF node /= get_node(gateway_client[1])
          THEN returns(i, c, Error(<<"Y","o","u"," ","c","a","n"," ","o","n","l","y"," ","w","r","i","t","e"," ","t","o"," ","f","i","l","e","s"," ","o","n"," ","y","o","u","r"," ","o","w","n"," ","n","o","d","e">>))
          ELSE client_write_file(i, c, gateway_client[1], node, path, content)

delete_file(i, node, path) ==
    /\ inv[i].pc = "idle"
    /\ LET c == Call("delete_file", node, path, << >>)
       IN IF gateway_client = << >> THEN returns(i, c, NotConfigured)
          ELSE IF node /= get_node(gateway_client[1])
          THEN returns(i, c, Error(<<"Y","o","u"," ","c","a","n"," ","o","n","l","y"," ","d","e","l","e","t","e"," ","f","i","l","e","s"," ","o","n"," ","y","o","u","r"," ","o","w","n"," ","n","o","d","e">>))
          ELSE client_delete_file(i, c, gateway_client[1], node, path)

read_file_tree(i, node) ==
    /\ inv[i].pc = "idle"
    /\ LET c == Call("read_file_tree", node, << >>, << >>)
       IN IF gateway_client = << >> THEN returns(i, c, NotConfigured)
          ELSE client_read_file_tree(i, c, gateway_client[1], node)

(***************************************************************************)
(* Inputs                                                                  *)
(***************************************************************************)
HomeNode == <<"a","l","i","c","e",".","o","s">>
OtherNode == <<"b","o","b",".","o","s">>
Nodes == {HomeNode, OtherNode}
ApiKey == <<"k","3","y">>

Paths == {<<"a",".","t","x","t">>}
PathsClient == {<<"a",".","t","x","t">>, <<"m","i","s","s","i","n","g",".","t","x","t">>}

Contents == {<< >>, <<" ">>, <<"x">>}
ContentsClient == Contents \cup {<<" ", "\t", "\n">>, <<" ","x"," ">>}

Fields(url, key, node) == ("url" :> url) @@ ("key" :> key) @@ ("node" :> node)

UnconfiguredFiles ==
    {ConfigFile(FALSE, FALSE, << >>),
     ConfigFile(TRUE, FALSE, << >>),
     ConfigFile(TRUE, TRUE, ("url" :> <<"h","t","t","p",":","/","/","g","a","t","e","w","a","y",".","e","x","a","m","p","l","e",":","8","0","8","0">>)
                              @@ ("key" :> ApiKey)),
     ConfigFile(TRUE, TRUE, ("key" :> ApiKey) @@ ("node" :> HomeNode)),
     ConfigFile(TRUE, TRUE, << >>)}

ConfigFiles ==
    UnconfiguredFiles \cup
    {ConfigFile(TRUE, TRUE, Fields(<<"h","t","t","p",":","/","/","g","a","t","e","w","a","y",".","e","x","a","m","p","l","e",":","8","0","8","0">>, ApiKey, HomeNode))}

Schemes == {<<"h","t","t","p">>, <<"h","t","t","p","s">>}

Netlocs ==
    {<<"l","o","c","a","l","h","o","s","t">>, <<"l","o","c","a","l","h","o","s","t",":","9","0","0","0">>, <<"m","y","a","p","p",".","l","o","c","a","l","h","o","s","t">>, <<"m","y","a","p","p",".","l","o","c","a","l","h","o","s","t",":","9","0","0","0">>,
     <<"a",".","b",".","l","o","c","a","l","h","o","s","t",":","8","0","8","0">>, <<"M","y","A","p","p",".","L","o","c","a","l","h","o","s","t",":","9","0","0","0">>, <<"u","s","e","r","@","m","y","a","p","p",".","l","o","c","a","l","h","o","s","t",":","9","0","0","0">>,
     <<"m","y","a","p","p",".","l","o","c","a","l","h","o","s","t",":","0","0","8","0">>, <<"m","y","a","p","p",".","l","o","c","a","l","h","o","s","t",":">>, <<"m","y","a","p","p",".","l","o","c","a","l","h","o","s","t",":","0">>,
     <<"m","y","a","p","p",".","l","o","c","a","l","h","o","s","t",":","h","t","t","p">>, <<"m","y","a","p","p",".","l","o","c","a","l","h","o","s","t",":","7","0","0","0","0">>,
     <<"g","a","t","e","w","a","y",".","e","x","a","m","p","l","e">>, <<"g","a","t","e","w","a","y",".","e","x","a","m","p","l","e",":","8","0","8","0">>, <<"l","o","c","a","l","h","o","s","t",".","e","x","a","m","p","l","e",":","8","0","8","0">>,
     <<"m","y",".","l","o","c","a","l","h","o","s","t",".","e","x","a","m","p","l","e",":","8","0","8","0">>, <<"n","o","t","l","o","c","a","l","h","o","s","t",":","9","0","0","0">>, <<"1","2","7",".","0",".","0",".","1",":","9","0","0","0">>}

UrlTails == {<< >>, <<"/">>, <<"/","a","p","i","/","/">>}

BaseUrls == {s \o <<":","/","/">> \o n \o t : s \in Schemes, n \in Netlocs, t \in UrlTails}

ConfigFilesClient ==
    UnconfiguredFiles \cup
    {ConfigFile(TRUE, TRUE, Fields(url, ApiKey, HomeNode)) : url \in BaseUrls}

\* What the gateway answers on the RPC endpoint
JsonOk == [Ok |-> "done"]
JsonGatewayError == Error(<<"N","o"," ","s","u","c","h"," ","n","o","d","e">>)
TreeEntry(path, type) == [path |-> path, type |-> type]
JsonTreePrefixed ==
    [ReadFileTree |-> <<TreeEntry(<<"p","r","e","f","i","x","/","f","o","o">>, "directory"),
                        TreeEntry(<<"p","r","e","f","i","x","/","f","o","o","/","b","a","r",".","t","x","t">>, "file"),
                        TreeEntry(<<"o","t","h","e","r","/","b","a","z",".","t","x","t">>, "file")>>]
JsonTreeRelative ==
    [ReadFileTree |-> <<TreeEntry(<<"f","o","o","/","b","a","r",".","t","x","t">>, "file")>>]

RpcOutcomes ==
    {Resp(200, <<"O","K">>, <<<<"a","p","p","l","i","c","a","t","i","o","n","/","j","s","o","n">>>>, <<JsonOk>>, << >>),
     Resp(500, <<"I","n","t","e","r","n","a","l"," ","S","e","r","v","e","r"," ","E","r","r","o","r">>, << >>, << >>, << >>),
     Raise("ConnectError", <<"A","l","l"," ","c","o","n","n","e","c","t","i","o","n"," ","a","t","t","e","m","p","t","s"," ","f","a","i","l","e","d">>)}

RpcOutcomesClient ==
    RpcOutcomes \cup
    {Resp(200, <<"O","K">>, <<<<"a","p","p","l","i","c","a","t","i","o","n","/","j","s","o","n">>>>, <<JsonGatewayError>>, << >>),
     Resp(200, <<"O","K">>, <<<<"a","p","p","l","i","c","a","t","i","o","n","/","j","s","o","n">>>>, <<JsonTreePrefixed>>, << >>),
     Resp(200, <<"O","K">>, <<<<"a","p","p","l","i","c","a","t","i","o","n","/","j","s","o","n">>>>, <<JsonTreeRelative>>, << >>),
     Resp(200, <<"O","K">>, <<<<"t","e","x","t","/","h","t","m","l">>>>, << >>, <<"<","h","t","m","l",">">>),
     Resp(204, <<"N","o"," ","C","o","n","t","e","n","t">>, << >>, << >>, << >>),
     Resp(404, <<"N","o","t"," ","F","o","u","n","d">>, << >>, <<JsonGatewayError>>, << >>),
     Resp(301, <<"M","o","v","e","d"," ","P","e","r","m","a","n","e","n","t","l","y">>, << >>, << >>, << >>),
     Raise("ConnectTimeout", << >>),
     Raise("ReadTimeout", << >>)}

\* What the gateway answers on the read endpoint
ReadOutcomes ==
    {Resp(200, <<"O","K">>, <<<<"t","e","x","t","/","p","l","a","i","n">>>>, << >>, <<"h","e","l","l","o">>),
     Resp(404, <<"N","o","t"," ","F","o","u","n","d">>, << >>, << >>, << >>),
     Raise("ConnectError", <<"A","l","l"," ","c","o","n","n","e","c","t","i","o","n"," ","a","t","t","e","m","p","t","s"," ","f","a","i","l","e","d">>)}

ReadOutcomesClient ==
    ReadOutcomes \cup
    {Resp(200, <<"O","K">>, <<<<"t","e","x","t","/","h","t","m","l",";"," ","c","h","a","r","s","e","t","=","u","t","f","-","8">>>>, << >>, <<"<","h","t","m","l",">">>),
     Resp(200, <<"O","K">>, << >>, << >>, <<"h","e","l","l","o">>),
     Resp(200, <<"O","K">>, <<<<"a","p","p","l","i","c","a","t","i","o","n","/","o","c","t","e","t","-","s","t","r","e","a","m">>>>, << >>, <<"h","e","l","l","o">>),
     Resp(200, <<"O","K">>, <<<<"a","p","p","l","i","c","a","t","i","o","n","/","j","s","o","n">>>>, << >>, <<"{","}">>),
     Resp(206, <<"P","a","r","t","i","a","l"," ","C","o","n","t","e","n","t">>, <<<<"i","m","a","g","e","/","p","n","g">>>>, << >>, <<"P","N","G">>),
     Resp(200, <<"O","K">>, <<<<"t","e","x","t","u","a","l">>>>, << >>, <<"h","e","l","l","o">>),
     Resp(200, <<"O","K">>, << << >> >>, << >>, <<"h","e","l","l","o">>),
     Resp(403, <<"F","o","r","b","i","d","d","e","n">>, <<<<"t","e","x","t","/","p","l","a","i","n">>>>, << >>, <<"n","o">>),
     Resp(500, <<"I","n","t","e","r","n","a","l"," ","S","e","r","v","e","r"," ","E","r","r","o","r">>, << >>, << >>, << >>),
     Resp(301, <<"M","o","v","e","d"," ","P","e","r","m","a","n","e","n","t","l","y">>, << >>, << >>, << >>),
     Raise("ConnectTimeout", << >>),
     Raise("ReadTimeout", << >>)}

(***************************************************************************)
(* Specifications                                                          *)
(***************************************************************************)
\* The server after its start: the configuration is loaded, no tool has
\* been invoked.
Init ==
    /\ \E file \in ConfigFiles : gateway_client = LoadConfig(file)
    /\ inv = [i \in Slots |-> Idle]

\* The tool surface under concurrent invocations.
Next ==
    \E i \in Slots :
        \/ get_our_node_name(i)
        \/ \E node \in Nodes : read_file_tree(i, node)
        \/ \E node \in Nodes, path \in Paths : read_directory(i, node, path)
        \/ \E node \in Nodes, path \in Paths : create_directory(i, node, path)
        \/ \E node \in Nodes, path \in Paths : delete_directory(i, node, path)
        \/ \E node \in Nodes, path \in Paths : read_file(i, node, path)
        \/ \E node \in Nodes, path \in Paths : delete_file(i, node, path)
        \/ \E node \in Nodes, path \in Paths, content \in Contents :
               create_file(i, node, path, content)
        \/ \E node \in Nodes, path \in Paths, content \in Contents :
               write_file(i, node, path, content)
        \/ \E outcome \in RpcOutcomes : rpc_response(i, outcome)
        \/ \E outcome \in ReadOutcomes : read_response(i, outcome)

Spec == Init /\ [][Next]_vars

\* One invocation at a time, over every configuration file, base url,
\* argument and remote outcome of the model, the gateway client's
\* read_api_key included.
InitClient ==
    /\ \E file \in ConfigFilesClient : gateway_client = LoadConfig(file)
    /\ inv = [i \in Slots |-> Idle]

NextClient ==
    \/ get_our_node_name(1)
    \/ \E node \in Nodes : read_file_tree(1, node)
    \/ \E node \in Nodes, path \in PathsClient : read_directory(1, node, path)
    \/ \E node \in Nodes, path \in PathsClient : create_directory(1, node, path)
    \/ \E node \in Nodes, path \in PathsClient : delete_directory(1, node, path)
    \/ \E node \in Nodes, path \in PathsClient : read_file(1, node, path)
    \/ \E node \in Nodes, path \in PathsClient : delete_file(1, node, path)
    \/ \E node \in Nodes, path \in PathsClient, content \in ContentsClient :
           create_file(1, node, path, content)
    \/ \E node \in Nodes, path \in PathsClient, content \in ContentsClient :
           write_file(1, node, path, content)
    \/ \E outcome \in RpcOutcomesClient : rpc_response(1, outcome)
    \/ \E outcome \in ReadOutcomesClient : read_response(1, outcome)
    \/ read_api_key(1)

SpecClient == InitClient /\ [][NextClient]_vars

(***************************************************************************)
(* Vocabulary of the properties                                            *)
(***************************************************************************)
MutationTools ==
    {"create_directory", "delete_directory", "create_file", "write_file", "delete_file"}

ReadTools == {"read_directory", "read_file", "read_file_tree"}

Configured == gateway_client /= << >>

endswith(s, p) == Len(p) <= Len(s) /\ SubSeq(s, Len(s) - Len(p) + 1, Len(s)) = p

\* {"Error": {"message": ...}}
IsErrorEnvelope(r) == DOMAIN r = {"Error"} /\ DOMAIN r.Error = {"message"}

ReturnedOne(i) == inv[i].pc = "done" /\ ~inv[i].raised /\ Len(inv[i].result) = 1

ReturnedError(i) == ReturnedOne(i) /\ IsErrorEnvelope(inv[i].result[1])

Message(i) == inv[i].result[1].Error.message

NoRemoteCall(i) == inv[i].sent = << >> /\ ~inv[i].forwarded

\* the remote call of invocation i names the node the caller gave
CarriesNode(i) ==
    /\ Len(inv[i].sent) = 1
    /\ IF inv[i].channel = "rpc"
       THEN inv[i].sent[1].json[1].node = inv[i].node
       ELSE contains(inv[i].sent[1].url, <<"/">> \o inv[i].node \o <<"/">>)

GotResponse(i) == Len(inv[i].resp) = 1 /\ inv[i].resp[1].kind = "response"

Got2xx(i) ==
    /\ GotResponse(i)
    /\ inv[i].resp[1].response.status \in 200..299

\* a transport failure: an exception of the HTTP client or a status outside 2xx
IsTransportFailure(o) ==
    o.kind = "exception" \/ o.response.status \notin 200..299

Whitespace == {" ", "\t", "\n", "\r"}

IsBlank(s) == \A k \in 1..Len(s) : s[k] \in Whitespace

(***************************************************************************)
(* C1                                                                      *)
(***************************************************************************)
IsAuthorizationError(r) ==
    /\ IsErrorEnvelope(r)
    /\ startswith(r.Error.message, <<"Y","o","u"," ","c","a","n"," ","o","n","l","y"," ">>)
    /\ endswith(r.Error.message, <<" ","o","n"," ","y","o","u","r"," ","o","w","n"," ","n","o","d","e">>)

\* C1: with the client configured with home node N, a mutation tool called
\* with a node other than N has returned the authorization-error envelope and
\* has issued no remote call, whatever the path and the content.
C1_MutationOnOtherNodeRejected ==
    \A i \in Slots :
        (/\ Configured
         /\ inv[i].tool \in MutationTools
         /\ inv[i].node /= gateway_client[1].config.node)
        => /\ ReturnedOne(i)
           /\ IsAuthorizationError(inv[i].result[1])
           /\ NoRemoteCall(i)

C1_Witness ==
    \E i \in Slots :
        /\ Configured
        /\ inv[i].tool = "write_file"
        /\ inv[i].node = OtherNode
        /\ inv[i].content = <<"x">>
        /\ ReturnedError(i)
        /\ Message(i) = <<"Y","o","u"," ","c","a","n"," ","o","n","l","y"," ","w","r","i","t","e"," ","t","o"," ","f","i","l","e","s"," ","o","n"," ","y","o","u","r"," ","o","w","n"," ","n","o","d","e">>

(***************************************************************************)
(* C2                                                                      *)
(***************************************************************************)
IsNotConfiguredError(r) ==
    IsErrorEnvelope(r) /\ contains(r.Error.message, <<"n","o","t"," ","c","o","n","f","i","g","u","r","e","d">>)

\* C2: when the gateway client was never configured, every tool that has been
\* invoked, get_our_node_name included, has returned the unconfigured-client
\* error envelope and has issued no remote call.
C2_UnconfiguredEveryToolErrorEnvelope ==
    \A i \in Slots :
        (~Configured /\ inv[i].pc /= "idle")
        => /\ ReturnedOne(i)
           /\ IsNotConfiguredError(inv[i].result[1])
           /\ NoRemoteCall(i)

(***************************************************************************)
(* C3                                                                      *)
(***************************************************************************)
IsNoContentError(r) ==
    IsErrorEnvelope(r) /\ contains(lower(r.Error.message), <<"n","o"," ","c","o","n","t","e","n","t">>)

\* C3: write_file on the home node with empty or whitespace-only content has
\* returned the "no content provided" error envelope without a remote call;
\* with any other content it has issued the remote call.
C3_BlankWriteRejectedBeforeRemoteCall ==
    \A i \in Slots :
        (/\ Configured
         /\ inv[i].tool = "write_file"
         /\ inv[i].node = gateway_client[1].config.node)
        => IF IsBlank(inv[i].content)
           THEN /\ ReturnedOne(i)
                /\ IsNoContentError(inv[i].result[1])
                /\ NoRemoteCall(i)
           ELSE Len(inv[i].sent) = 1

(***************************************************************************)
(* C4                                                                      *)
(***************************************************************************)
\* C4: with the client configured, a read tool (read_directory, read_file,
\* read_file_tree) called with any node, the home node or another, has been
\* forwarded to the gateway client and has issued a remote call that names
\* that node; it has not been rejected by an ownership check.
C4_ReadForwardedForEveryNode ==
    \A i \in Slots :
        (Configured /\ inv[i].tool \in ReadTools)
        => /\ inv[i].forwarded
           /\ CarriesNode(i)
           /\ (ReturnedOne(i) => ~IsAuthorizationError(inv[i].result[1]))

C4_Witness ==
    \E i \in Slots :
        /\ Configured
        /\ inv[i].tool = "read_file"
        /\ inv[i].node = OtherNode
        /\ inv[i].node /= gateway_client[1].config.node
        /\ inv[i].pc = "done"
        /\ CarriesNode(i)
        /\ "ReadFile" \in DOMAIN inv[i].result[1]

(***************************************************************************)
(* C5                                                                      *)
(***************************************************************************)
IsLoopbackName(host) == host = <<"l","o","c","a","l","h","o","s","t">> \/ endswith(host, <<".","l","o","c","a","l","h","o","s","t">>)

\* the port the configured base url names: none, or a usable port number
UsablePort(p) == ~p.raised /\ (p.value = << >> \/ p.value[1] \in 1..65535)

ExpectedTarget(p) ==
    IF p.value = << >> THEN <<"1","2","7",".","0",".","0",".","1">> ELSE <<"1","2","7",".","0",".","0",".","1",":">> \o str(p.value[1])

\* C5: when the hostname of the configured base url is localhost or ends in
\* .localhost, with or without a port, every request sent (RPC and read) goes
\* to 127.0.0.1, with the port of the base url when it names one and with no
\* port otherwise.
C5_LoopbackNamesRewritten ==
    \A i \in Slots :
        (/\ Configured
         /\ Len(inv[i].sent) = 1
         /\ IsLoopbackName(hostname(urlparse(gateway_client[1].config.url)))
         /\ UsablePort(port(urlparse(gateway_client[1].config.url))))
        => urlparse(inv[i].sent[1].url).netloc
             = ExpectedTarget(port(urlparse(gateway_client[1].config.url)))

(***************************************************************************)
(* C6                                                                      *)
(***************************************************************************)
\* the internal root prefix of a node's public tree
RootPrefix == <<"p","r","e","f","i","x","/">>

StripRootPrefix(path) ==
    IF startswith(path, RootPrefix)
    THEN SubSeq(path, Len(RootPrefix) + 1, Len(path))
    ELSE path

IsTreeListing(r) == DOMAIN r = {"ReadFileTree"}

\* C6: read_file_tree returns each entry of the gateway's tree listing with
\* the root prefix stripped from its path.
C6_TreePathsRelativeToNodeRoot ==
    \A i \in Slots :
        (/\ inv[i].tool = "read_file_tree"
         /\ inv[i].pc = "done"
         /\ Got2xx(i)
         /\ Len(inv[i].resp[1].response.json) = 1
         /\ IsTreeListing(inv[i].resp[1].response.json[1]))
        => /\ ReturnedOne(i)
           /\ IsTreeListing(inv[i].result[1])
           /\ Len(inv[i].result[1].ReadFileTree)
                = Len(inv[i].resp[1].response.json[1].ReadFileTree)
           /\ \A k \in 1..Len(inv[i].result[1].ReadFileTree) :
                inv[i].result[1].ReadFileTree[k].path
                  = StripRootPrefix(
                        inv[i].resp[1].response.json[1].ReadFileTree[k].path)

(***************************************************************************)
(* C7                                                                      *)
(***************************************************************************)
IsTextType(mime) == Len(mime) >= 5 /\ SubSeq(mime, 1, 5) = <<"t","e","x","t","/">>

\* C7: read_file whose read-endpoint response has a 2xx status and reports a
\* content type that is not text/* has returned an error envelope, never a
\* ReadFile payload.
C7_NonTextContentRejected ==
    \A i \in Slots :
        (/\ inv[i].tool = "read_file"
         /\ inv[i].pc = "done"
         /\ Got2xx(i)
         /\ Len(inv[i].resp[1].response.content_type) = 1
         /\ ~IsTextType(inv[i].resp[1].response.content_type[1]))
        => /\ ReturnedError(i)
           /\ contains(Message(i), <<"n","o","t"," ","a"," ","t","e","x","t"," ","f","i","l","e">>)

C7_Witness ==
    \E i \in Slots :
        /\ inv[i].tool = "read_file"
        /\ Got2xx(i)
        /\ inv[i].resp[1].response.content_type = <<<<"a","p","p","l","i","c","a","t","i","o","n","/","o","c","t","e","t","-","s","t","r","e","a","m">>>>
        /\ ReturnedError(i)
        /\ Message(i) = <<"F","i","l","e"," ","i","s"," ","n","o","t"," ","a"," ","t","e","x","t"," ","f","i","l","e"," ","(","m","i","m","e"," ","t","y","p","e",":"," ","a","p","p","l","i","c","a","t","i","o","n","/","o","c","t","e","t","-","s","t","r","e","a","m",")">>

(***************************************************************************)
(* C8                                                                      *)
(***************************************************************************)
\* C8: read_file of path p answered 404 has returned an error envelope whose
\* message is a "File not found" message containing p, and no other transport
\* failure of the same call (another status outside 2xx, an exception of the
\* HTTP client) yields that message.
C8_NotFoundNamesPathAndIsDistinct ==
    \A i \in Slots :
        (/\ inv[i].tool = "read_file"
         /\ inv[i].pc = "done"
         /\ GotResponse(i)
         /\ inv[i].resp[1].response.status = 404)
        => /\ ReturnedError(i)
           /\ startswith(Message(i), <<"F","i","l","e"," ","n","o","t"," ","f","o","u","n","d">>)
           /\ contains(Message(i), inv[i].path)
           /\ \A o \in ReadOutcomesClient :
                (IsTransportFailure(o) /\ ~(o.kind = "response" /\ o.response.status = 404))
                => read_result(inv[i], o).result /= inv[i].result

C8_Witness ==
    \E i \in Slots :
        /\ inv[i].tool = "read_file"
        /\ inv[i].path = <<"m","i","s","s","i","n","g",".","t","x","t">>
        /\ GotResponse(i)
        /\ inv[i].resp[1].response.status = 404
        /\ ReturnedError(i)
        /\ Message(i) = <<"F","i","l","e"," ","n","o","t"," ","f","o","u","n","d",":"," ","m","i","s","s","i","n","g",".","t","x","t">>

(***************************************************************************)
(* C9                                                                      *)
(***************************************************************************)
\* the remote call of invocation i failed: its url could not be built, the
\* HTTP client raised, the status is outside 2xx, or the RPC body is no JSON
RemoteCallFailed(i) ==
    \/ inv[i].resp = << >>
    \/ IsTransportFailure(inv[i].resp[1])
    \/ (inv[i].channel = "rpc" /\ inv[i].resp[1].response.json = << >>)

\* C9: a gateway client operation that has ended has returned exactly one
\* envelope and raised nothing, and when its remote call failed the envelope
\* is an error envelope {"Error": {"message": ...}}.
C9_EveryOutcomeEndsInEnvelope ==
    \A i \in Slots :
        (inv[i].forwarded /\ inv[i].pc = "done")
        => /\ ReturnedOne(i)
           /\ (RemoteCallFailed(i) => IsErrorEnvelope(inv[i].result[1]))

C9_Witness ==
    \E i \in Slots :
        /\ inv[i].forwarded
        /\ inv[i].channel = "rpc"
        /\ Got2xx(i)
        /\ inv[i].resp[1].response.json = << >>
        /\ ReturnedError(i)
        /\ startswith(Message(i), <<"R","e","q","u","e","s","t"," ","f","a","i","l","e","d",":"," ">>)

(***************************************************************************)
(* C10                                                                     *)
(***************************************************************************)
SameCall(i, j) ==
    /\ inv[i].tool = inv[j].tool
    /\ inv[i].node = inv[j].node
    /\ inv[i].path = inv[j].path
    /\ inv[i].content = inv[j].content

\* two invocations with the same arguments sent the same request, and with
\* the same response to it returned the same envelope
OwnInputsDecide ==
    \A i, j \in Slots :
        (SameCall(i, j) /\ inv[i].pc /= "idle" /\ inv[j].pc /= "idle")
        => /\ inv[i].sent = inv[j].sent
           /\ (inv[i].pc = "done" /\ inv[j].pc = "done" /\ inv[i].resp = inv[j].resp)
              => (inv[i].result = inv[j].result /\ inv[i].raised = inv[j].raised)

\* C10: under every interleaving of the invocations in flight, no step changes
\* the gateway client loaded at the start (its configuration, its headers, its
\* endpoint urls, or its absence), and what an invocation sends and returns is
\* decided by its own arguments and the response to its own remote call.
C10_ConfigFixedAndInvocationsIndependent ==
    [][gateway_client' = gateway_client /\ OwnInputsDecide']_vars

C10_Witness ==
    \E i, j \in Slots :
        /\ i /= j
        /\ Configured
        /\ SameCall(i, j)
        /\ inv[i].tool = "read_file"
        /\ inv[i].pc = "done"
        /\ GotResponse(i)
        /\ inv[j].pc = "awaiting"
        /\ inv[j].sent = inv[i].sent

=============================================================================
